---- MODULE Spec2Model ----
(***************************************************************************)
(* Incremental synchronisation of Readwise article highlights into a       *)
(* de-duplicated JSON list kept in a GitHub repository, with a watermark   *)
(* (last_update.json).  The model follows src/readwise_sync.py; the local  *)
(* variant src/readwise.py is the incremental path of the same algorithm   *)
(* (export_articles with neither start_date nor all_time).                 *)
(*                                                                         *)
(* Every call to the repository (get_contents, update_file, create_file)   *)
(* and to the export API either answers or raises; a commit that raises    *)
(* leaves the file as it was.                                              *)
(***************************************************************************)
EXTENDS Integers, Sequences, FiniteSets, TLC

\* ------------------------------------------------------------------ bounds
MaxFetch == 2        \* longest "results" list the export API returns
MaxDay == 2          \* last calendar day the clock reaches
TicksPerDay == 2     \* instants of datetime.now() told apart within a day

\* ------------------------------------------------------- Python's Optional
None == <<>>
Some(x) == <<x>>
Get(o) == o[1]

Range(s) == {s[i] : i \in 1..Len(s)}

\* --------------------------------------------------------------- datetimes
\* A datetime is a number of ticks; a '%Y-%m-%d' string is [ymd |-> day].
strptime(s) == s.ymd * TicksPerDay
strftime(dt) == [ymd |-> dt \div TicksPerDay]
isoformat(dt) == [date |-> dt \div TicksPerDay, time |-> dt % TicksPerDay]
\* variant: the difference counted from 1
days_between_from_one(a, b) == (a - b) \div TicksPerDay + 1

\* (a - b).days: timedelta normalises to whole days rounded down
days_between(a, b) == (a - b) \div TicksPerDay

\* ------------------------------------------------------------- clean_title
\* A title is a sequence of characters.
Whitespace == {" ", "\n", "\t"}

replace_newline(title) ==
    [i \in 1..Len(title) |-> IF title[i] = "\n" THEN " " ELSE title[i]]

\* re.sub(r'\s+', ' ', s)
RECURSIVE sub_spaces(_)
sub_spaces(s) ==
    IF s = <<>> THEN <<>>
    ELSE IF Head(s) \in Whitespace
         THEN IF Len(s) > 1 /\ s[2] \in Whitespace
              THEN sub_spaces(Tail(s))
              ELSE <<" ">> \o sub_spaces(Tail(s))
         ELSE <<Head(s)>> \o sub_spaces(Tail(s))

RECURSIVE lstrip(_)
lstrip(s) ==
    IF s # <<>> /\ Head(s) \in Whitespace THEN lstrip(Tail(s)) ELSE s

RECURSIVE rstrip(_)
rstrip(s) ==
    IF s # <<>> /\ s[Len(s)] \in Whitespace
    THEN rstrip(SubSeq(s, 1, Len(s) - 1)) ELSE s

strip(s) == rstrip(lstrip(s))

\* variant: the ends of the title are left as they are
clean_title_no_strip(title) == sub_spaces(replace_newline(title))

clean_title(title) == strip(sub_spaces(replace_newline(title)))

\* ----------------------------------------------------- create_article_json
Untitled == <<"U", "n", "t", "i", "t", "l", "e", "d">>

\* JSON null (None) in a field that holds a string, and in "title", which
\* holds a sequence of characters
JsonNull == "<null>"
NullTitle == <<JsonNull>>

\* variant: the category is compared as it is spelled
lower_unchanged(c) == c

\* str.lower() on the category values of the model
lower(c) ==
    CASE c \in {"Articles", "ARTICLES"} -> "articles"
      [] c = "Books" -> "books"
      [] OTHER -> c

\* dict.get(key, default)
dict_get(d, key, default) == IF key \in DOMAIN d THEN d[key] ELSE default

RECURSIVE create_article_loop(_, _)
create_article_loop(results, articles) ==
    IF results = <<>> THEN articles
    ELSE LET article == Head(results)
         IN IF lower(dict_get(article, "category", "")) = "articles"
            THEN create_article_loop(Tail(results),
                    Append(articles,
                        [title |-> clean_title(dict_get(article, "title", Untitled)),
                         url |-> dict_get(article, "source_url", "")]))
            ELSE create_article_loop(Tail(results), articles)

create_article_json(highlights_data) ==
    create_article_loop(dict_get(highlights_data, "results", <<>>), <<>>)

\* None has neither .lower() (line 100) nor .replace() (line 92): the loop
\* raises AttributeError at the first record whose category is null, or
\* whose category is articles and whose title is null.
raises_attribute_error(article) ==
    LET category == dict_get(article, "category", "")
    IN \/ category = JsonNull
       \/ /\ lower(category) = "articles"
          /\ dict_get(article, "title", Untitled) = NullTitle

create_article_json_raises(highlights_data) ==
    \E article \in Range(dict_get(highlights_data, "results", <<>>)) :
        raises_attribute_error(article)

\* ---------------------------------------------------------- merge_articles
article_key(article) == <<article.title, article.url>>

\* variant: a new article is put in front of the list
RECURSIVE merge_loop_prepend(_, _, _)
merge_loop_prepend(existing_articles, existing_set, new_articles) ==
    IF new_articles = <<>> THEN existing_articles
    ELSE IF article_key(Head(new_articles)) \notin existing_set
         THEN merge_loop_prepend(<<Head(new_articles)>> \o existing_articles,
                                 existing_set \cup {article_key(Head(new_articles))},
                                 Tail(new_articles))
         ELSE merge_loop_prepend(existing_articles, existing_set, Tail(new_articles))

\* variant: the tuple of an appended article is not added to existing_set
RECURSIVE merge_loop_no_add(_, _, _)
merge_loop_no_add(existing_articles, existing_set, new_articles) ==
    IF new_articles = <<>> THEN existing_articles
    ELSE IF article_key(Head(new_articles)) \notin existing_set
         THEN merge_loop_no_add(Append(existing_articles, Head(new_articles)),
                                existing_set, Tail(new_articles))
         ELSE merge_loop_no_add(existing_articles, existing_set, Tail(new_articles))

RECURSIVE merge_loop(_, _, _)
merge_loop(existing_articles, existing_set, new_articles) ==
    IF new_articles = <<>> THEN existing_articles
    ELSE LET article == Head(new_articles)
             article_tuple == article_key(article)
         IN IF article_tuple \notin existing_set
            THEN merge_loop(Append(existing_articles, article),
                            existing_set \cup {article_tuple},
                            Tail(new_articles))
            ELSE merge_loop(existing_articles, existing_set, Tail(new_articles))

\* variant: existing_set starts empty
merge_articles_unseeded(existing_articles, new_articles) ==
    merge_loop(existing_articles, {}, new_articles)

merge_articles(existing_articles, new_articles) ==
    merge_loop(existing_articles,
               {article_key(a) : a \in Range(existing_articles)},
               new_articles)

\* -------------------------------------------------------------- repository
articles_file == "articles.json"
last_update_file == "last_update.json"
Paths == {articles_file, last_update_file}

\* json.dumps / json.loads: a JSON text is [json |-> value]; json.loads
\* raises on any other text.
json_dumps(value) == [json |-> value]
is_json(text) == DOMAIN text = {"json"}
json_loads(text) == text.json

\* Outcome of one call to a remote service: it answers, or it raises for a
\* reason of its own (network, rate limit, server error).
Outcomes == {"ok", "error"}

VARIABLES
    repo,               \* path -> None | Some(text): the files of the repository
    now,                \* datetime.now()
    pc,                 \* position of the running invocation of export_articles
    start_date,         \* arguments of the invocation
    end_date,
    all_time,
    last_update,        \* what load_last_update_from_github returned, if called
    highlights_data,    \* response of the export API
    new_articles,       \* result of create_article_json
    merged_articles,    \* what merge_articles returned
    existing_articles,  \* the list load_existing_articles_from_github returned
    before,             \* repo when the invocation started
    requests,           \* params of the requests sent to the export API
    writes,             \* paths committed by the invocation, in order
    failed_calls,       \* calls that raised during the invocation
    fetched_at,         \* datetime.now() when the request was sent (SpecClock)
    interrupted,        \* the run that wrote the list but not the watermark (SpecRecovery)
    workers             \* invocations running side by side (SpecWorkers)

vars == <<repo, now, pc, start_date, end_date, all_time, last_update, highlights_data,
          new_articles, merged_articles, existing_articles, before, requests,
          writes, failed_calls, fetched_at, interrupted, workers>>

\* what only the specifications named above change
aux == <<fetched_at, interrupted, workers>>

locals == <<highlights_data, new_articles, merged_articles, existing_articles>>
args == <<start_date, end_date, all_time>>

\* get_file_content: any exception (404 or failure) is printed and None returned
get_file_content(files, path, outcome) ==
    IF outcome = "ok" /\ files[path] # None THEN files[path] ELSE None

\* variant: the exception of update_file / create_file is swallowed
update_file_silent(files, path, content, get, update, create) ==
    IF (get = "ok" /\ files[path] # None /\ update = "ok")
       \/ (files[path] = None /\ create = "ok")
    THEN [files |-> [files EXCEPT ![path] = Some(content)], raised |-> FALSE]
    ELSE [files |-> files, raised |-> FALSE]

\* update_file: get_contents, then update_file with its sha; on any exception
\* create_file, which the repository refuses for a path that exists.
\* Returns the files afterwards and whether the call raised.
update_file(files, path, content, get, update, create) ==
    IF get = "ok" /\ files[path] # None /\ update = "ok"
    THEN [files |-> [files EXCEPT ![path] = Some(content)], raised |-> FALSE]
    ELSE IF files[path] = None /\ create = "ok"
         THEN [files |-> [files EXCEPT ![path] = Some(content)], raised |-> FALSE]
         ELSE [files |-> files, raised |-> TRUE]

\* strptime raises ValueError on a string that is no '%Y-%m-%d' date
is_date(s) == DOMAIN s = {"ymd"}

\* Whether json.loads, data['last_update'] and strptime all go through
parses_last_update(text) ==
    /\ is_json(text)
    /\ "last_update" \in DOMAIN json_loads(text)
    /\ is_date(json_loads(text).last_update)

\* variant: a text that does not parse counts as the earliest date
load_last_update_epoch(files, outcome) ==
    LET content == get_file_content(files, last_update_file, outcome)
    IN IF content # None
       THEN IF parses_last_update(Get(content))
            THEN Some(strptime(json_loads(Get(content)).last_update))
            ELSE Some(0)
       ELSE None

load_last_update_from_github(files, outcome) ==
    LET content == get_file_content(files, last_update_file, outcome)
    IN IF content # None
       THEN IF parses_last_update(Get(content))
            THEN Some(strptime(json_loads(Get(content)).last_update))
            ELSE None
       ELSE None

\* variant: the date of the day before is saved
save_last_update_day_before(files, clock, get, update, create) ==
    update_file(files, last_update_file,
                json_dumps([last_update |-> strftime(clock - TicksPerDay)]),
                get, update, create)

save_last_update_to_github(files, clock, get, update, create) ==
    LET current_date == strftime(clock)
        content == json_dumps([last_update |-> current_date])
    IN update_file(files, last_update_file, content, get, update, create)

load_existing_articles_from_github(files, outcome) ==
    LET content == get_file_content(files, articles_file, outcome)
    IN IF content # None
       THEN IF is_json(Get(content)) THEN json_loads(Get(content)) ELSE <<>>
       ELSE <<>>

\* get_highlights: the params of the request
NoParams == [updated_after |-> None, updated_before |-> None]

\* variant: start_date tested before updated_after is, end_date never sent
get_highlights_start_only(updated_after, start_datetime, end_datetime) ==
    IF start_datetime # None
    THEN [NoParams EXCEPT !.updated_after = Some(isoformat(Get(start_datetime)))]
    ELSE IF updated_after # None
         THEN [NoParams EXCEPT !.updated_after = Some(isoformat(Get(updated_after)))]
         ELSE NoParams

get_highlights(updated_after, start_datetime, end_datetime) ==
    IF updated_after # None
    THEN [NoParams EXCEPT !.updated_after = Some(isoformat(Get(updated_after)))]
    ELSE IF start_datetime # None
         THEN [updated_after |-> Some(isoformat(Get(start_datetime))),
               updated_before |-> IF end_datetime # None
                                  THEN Some(isoformat(Get(end_datetime)))
                                  ELSE None]
         ELSE NoParams

\* variant: an end_date counts as an explicit range too
updates_last_update_no_end(sd, at) == sd = None /\ ~at /\ end_date = None

\* variant: "or" for "and"
updates_last_update_or(sd, at) == sd = None \/ ~at

\* "if not start_date and not all_time"
updates_last_update(sd, at) == sd = None /\ ~at

\* What export_articles prints: "Found N new articles" (line 195), "Found N
\* existing articles" (line 199, before the merge) and, under "New articles
\* added:", the titles of new_articles (lines 217-220).
reported_new_count == Len(new_articles)
reported_existing_count == Len(existing_articles)
reported_added == new_articles

\* ------------------------------------------------------------ the export API
\* Records the export API may return: "title" and "source_url" are optional.
Highlights ==
    { [category |-> "articles", title |-> <<"a">>, source_url |-> "u"],
      [category |-> "Articles", title |-> <<"a", "\n">>, source_url |-> "u"],
      [category |-> "books", title |-> <<"b">>, source_url |-> "v"],
      [category |-> "articles"] }

SeqsUpTo(S, n) == UNION {[1..k -> S] : k \in 0..n}

Responses == {[results |-> r] : r \in SeqsUpTo(Highlights, MaxFetch)}

\* Arguments main() passes: None or a 'YYYY-MM-DD' string.
StartDates == {None, Some([ymd |-> 0])}
EndDates == {None, Some([ymd |-> 1])}

\* ------------------------------------------------------------------- Init
\* Both files start absent, or last_update.json was left by a run on another
\* host (datetime.now() is the host's local date, so it may be ahead).
Init ==
    /\ \E w \in {None} \cup {Some(json_dumps([last_update |-> [ymd |-> d]])) : d \in 0..MaxDay} :
          repo = [p \in Paths |-> IF p = last_update_file THEN w ELSE None]
    /\ now = TicksPerDay
    /\ pc = "idle"
    /\ start_date = None /\ end_date = None /\ all_time = FALSE
    /\ last_update = None
    /\ highlights_data = [results |-> <<>>]
    /\ new_articles = <<>>
    /\ merged_articles = <<>>
    /\ existing_articles = <<>>
    /\ before = repo
    /\ requests = <<>>
    /\ writes = <<>>
    /\ failed_calls = {}
    /\ fetched_at = None
    /\ interrupted = None
    /\ workers = <<>>

\* ------------------------------------------------ export_articles, by step
\* Lines 167-191: the mode is decided and the request is sent, or the
\* invocation returns at once ("Already updated today").
Invoke(sd, ed, at, read) ==
    /\ pc = "idle"
    /\ start_date' = sd /\ end_date' = ed /\ all_time' = at
    /\ before' = repo
    /\ writes' = <<>>
    /\ UNCHANGED <<repo, now, locals>>
    /\ IF at
       THEN /\ requests' = <<get_highlights(None, None, None)>>
            /\ pc' = "fetching"
            /\ last_update' = None
            /\ failed_calls' = {}
       ELSE IF sd # None
       THEN LET start_datetime == strptime(Get(sd))
                end_datetime == IF ed # None THEN strptime(Get(ed)) ELSE now
            IN /\ requests' = <<get_highlights(None, Some(start_datetime),
                                               Some(end_datetime))>>
               /\ pc' = "fetching"
               /\ last_update' = None
               /\ failed_calls' = {}
       ELSE LET loaded == load_last_update_from_github(repo, read)
            IN /\ last_update' = loaded
               /\ failed_calls' = IF read = "error"
                                   THEN {"load_last_update_from_github"} ELSE {}
               /\ IF loaded # None
                  THEN LET days_since_update == days_between(now, Get(loaded))
                       IN IF days_since_update > 0
                          THEN /\ requests' = <<get_highlights(loaded, None, None)>>
                               /\ pc' = "fetching"
                          ELSE /\ requests' = <<>>
                               /\ pc' = "done"
                  ELSE /\ requests' = <<get_highlights(None, None, None)>>
                       /\ pc' = "fetching"

\* Lines 57-59: the response arrives ...
FetchOk(response) ==
    /\ pc = "fetching"
    /\ highlights_data' = response
    /\ pc' = "fetched"
    /\ UNCHANGED <<repo, now, args, last_update, new_articles, merged_articles, existing_articles,
                   before, requests, writes, failed_calls>>

\* ... or raise_for_status raises
FetchFail ==
    /\ pc = "fetching"
    /\ failed_calls' = failed_calls \cup {"get_highlights"}
    /\ pc' = "failed"
    /\ UNCHANGED <<repo, now, args, last_update, locals, before, requests, writes>>

\* Line 194
Transform ==
    /\ pc = "fetched"
    /\ IF create_article_json_raises(highlights_data)
       THEN /\ pc' = "failed"
            /\ failed_calls' = failed_calls \cup {"create_article_json"}
            /\ UNCHANGED <<highlights_data, new_articles>>
       ELSE /\ new_articles' = create_article_json(highlights_data)
            /\ highlights_data' = [results |-> <<>>]
            /\ pc' = "filtered"
            /\ UNCHANGED failed_calls
    /\ UNCHANGED <<repo, now, args, last_update, merged_articles, existing_articles, before,
                   requests, writes>>

\* Lines 198-202
LoadAndMerge(read) ==
    /\ pc = "filtered"
    /\ LET loaded == load_existing_articles_from_github(repo, read)
       IN /\ existing_articles' = loaded
          /\ merged_articles' = merge_articles(loaded, new_articles)
    /\ failed_calls' = IF read = "error"
                       THEN failed_calls \cup {"load_existing_articles_from_github"}
                       ELSE failed_calls
    /\ pc' = "merged"
    /\ UNCHANGED <<repo, now, args, last_update, highlights_data, new_articles, before,
                   requests, writes>>

\* Lines 206-210
WriteArticles(get, update, create) ==
    /\ pc = "merged"
    /\ LET r == update_file(repo, articles_file, json_dumps(merged_articles),
                            get, update, create)
       IN /\ repo' = r.files
          /\ pc' = IF r.raised THEN "failed" ELSE "persisted"
          /\ writes' = IF r.raised THEN writes ELSE Append(writes, articles_file)
          /\ failed_calls' =
                failed_calls
                \cup (IF get = "error" THEN {"get_contents"} ELSE {})
                \cup (IF r.raised THEN {"update_file"} ELSE {})
    /\ UNCHANGED <<now, args, last_update, locals, before, requests>>

\* Lines 213-214, the condition true
UpdateLastUpdate(get, update, create) ==
    /\ pc = "persisted"
    /\ updates_last_update(start_date, all_time)
    /\ LET r == save_last_update_to_github(repo, now, get, update, create)
       IN /\ repo' = r.files
          /\ pc' = IF r.raised THEN "failed" ELSE "done"
          /\ writes' = IF r.raised THEN writes ELSE Append(writes, last_update_file)
          /\ failed_calls' =
                failed_calls
                \cup (IF get = "error" THEN {"get_contents"} ELSE {})
                \cup (IF r.raised THEN {"update_file"} ELSE {})
    /\ UNCHANGED <<now, args, last_update, locals, before, requests>>

\* Lines 213-214, the condition false
SkipLastUpdate ==
    /\ pc = "persisted"
    /\ ~updates_last_update(start_date, all_time)
    /\ pc' = "done"
    /\ UNCHANGED <<repo, now, args, last_update, locals, before, requests, writes, failed_calls>>

\* The process ends (main re-raises what export_articles raised); the next
\* run starts from the repository as it is.
Exit ==
    /\ pc \in {"done", "failed"}
    /\ pc' = "idle"
    /\ start_date' = None /\ end_date' = None /\ all_time' = FALSE
    /\ last_update' = None
    /\ highlights_data' = [results |-> <<>>]
    /\ new_articles' = <<>>
    /\ merged_articles' = <<>>
    /\ existing_articles' = <<>>
    /\ before' = repo
    /\ requests' = <<>>
    /\ writes' = <<>>
    /\ failed_calls' = {}
    /\ UNCHANGED <<repo, now>>

\* Time passes, between invocations and between the steps of one.
Tick ==
    /\ now < (MaxDay + 1) * TicksPerDay - 1
    /\ now' = now + 1
    /\ UNCHANGED <<repo, pc, args, last_update, locals, before, requests, writes, failed_calls>>

Next ==
    \/ \E sd \in StartDates, ed \in EndDates, at \in BOOLEAN, read \in Outcomes :
          Invoke(sd, ed, at, read) /\ UNCHANGED aux
    \/ \E response \in Responses : FetchOk(response) /\ UNCHANGED aux
    \/ FetchFail /\ UNCHANGED aux
    \/ Transform /\ UNCHANGED aux
    \/ \E read \in Outcomes : LoadAndMerge(read) /\ UNCHANGED aux
    \/ \E get \in Outcomes, update \in Outcomes, create \in Outcomes :
          WriteArticles(get, update, create) /\ UNCHANGED aux
    \/ \E get \in Outcomes, update \in Outcomes, create \in Outcomes :
          UpdateLastUpdate(get, update, create) /\ UNCHANGED aux
    \/ SkipLastUpdate /\ UNCHANGED aux
    \/ Exit /\ UNCHANGED aux
    \/ Tick /\ UNCHANGED aux

Spec == Init /\ [][Next]_vars

\* ---------------------------------------------- merge_articles on its own
\* merge_articles called with every pair of lists up to MaxLen, lists that
\* repeat a record included, and then once more on its own result.
MaxLen == 3

Articles ==
    { [title |-> <<"a">>, url |-> "u"],
      [title |-> <<"a">>, url |-> "v"],
      [title |-> <<"b">>, url |-> "u"] }

InitMerge ==
    /\ repo = [p \in Paths |-> None]
    /\ now = TicksPerDay
    /\ pc = "merge_call"
    /\ start_date = None /\ end_date = None /\ all_time = FALSE
    /\ last_update = None
    /\ highlights_data = [results |-> <<>>]
    /\ new_articles \in SeqsUpTo(Articles, MaxLen)
    /\ existing_articles \in SeqsUpTo(Articles, MaxLen)
    /\ merged_articles = <<>>
    /\ before = repo
    /\ requests = <<>>
    /\ writes = <<>>
    /\ failed_calls = {}
    /\ fetched_at = None
    /\ interrupted = None
    /\ workers = <<>>

MergeCall ==
    /\ pc = "merge_call"
    /\ merged_articles' = merge_articles(existing_articles, new_articles)
    /\ pc' = "merge_return"
    /\ UNCHANGED <<repo, now, args, last_update, highlights_data, new_articles,
                   existing_articles, before, requests, writes, failed_calls>>

\* the result is merged with the same new_articles again
MergeAgain ==
    /\ pc = "merge_return"
    /\ existing_articles' = merged_articles
    /\ merged_articles' = merge_articles(merged_articles, new_articles)
    /\ pc' = "merge_again"
    /\ UNCHANGED <<repo, now, args, last_update, highlights_data, new_articles,
                   before, requests, writes, failed_calls>>

NextMerge ==
    \/ MergeCall /\ UNCHANGED aux
    \/ MergeAgain /\ UNCHANGED aux

SpecMerge == InitMerge /\ [][NextMerge]_vars

\* ------------------------------------------- files that do not parse
\* The two files as someone may have left them: absent, well formed, or a
\* text json.loads, data['last_update'] or strptime raises on.
NotJson == [text |-> "<<<<<<< HEAD"]
MalformedLastUpdate ==
    { NotJson,
      json_dumps([updated |-> [ymd |-> 0]]),
      json_dumps([last_update |-> [text |-> "yesterday"]]) }

InitMalformed ==
    /\ \E w \in {None, Some(json_dumps([last_update |-> [ymd |-> 0]]))}
                 \cup {Some(t) : t \in MalformedLastUpdate},
          a \in {None, Some(NotJson),
                 Some(json_dumps(<<[title |-> <<"a">>, url |-> "u"]>>))} :
          repo = [p \in Paths |-> IF p = last_update_file THEN w ELSE a]
    /\ now = TicksPerDay
    /\ pc = "idle"
    /\ start_date = None /\ end_date = None /\ all_time = FALSE
    /\ last_update = None
    /\ highlights_data = [results |-> <<>>]
    /\ new_articles = <<>>
    /\ merged_articles = <<>>
    /\ existing_articles = <<>>
    /\ before = repo
    /\ requests = <<>>
    /\ writes = <<>>
    /\ failed_calls = {}
    /\ fetched_at = None
    /\ interrupted = None
    /\ workers = <<>>

\* The invocations of Spec, the clock standing still
NextMalformed ==
    \/ \E sd \in StartDates, ed \in EndDates, at \in BOOLEAN, read \in Outcomes :
          Invoke(sd, ed, at, read) /\ UNCHANGED aux
    \/ \E response \in Responses : FetchOk(response) /\ UNCHANGED aux
    \/ FetchFail /\ UNCHANGED aux
    \/ Transform /\ UNCHANGED aux
    \/ \E read \in Outcomes : LoadAndMerge(read) /\ UNCHANGED aux
    \/ \E get \in Outcomes, update \in Outcomes, create \in Outcomes :
          WriteArticles(get, update, create) /\ UNCHANGED aux
    \/ \E get \in Outcomes, update \in Outcomes, create \in Outcomes :
          UpdateLastUpdate(get, update, create) /\ UNCHANGED aux
    \/ SkipLastUpdate /\ UNCHANGED aux
    \/ Exit /\ UNCHANGED aux

SpecMalformed == InitMalformed /\ [][NextMalformed]_vars

\* --------------------------------------- create_article_json on its own
\* Records as the export API may return them: the category in any case,
\* other categories, fields left out, fields that are null.
RawHighlights ==
    { [category |-> "articles", title |-> <<"a">>, source_url |-> "u"],
      [category |-> "Articles", title |-> <<" ", "a", "\n">>, source_url |-> "u"],
      [category |-> "ARTICLES", title |-> <<"b">>, source_url |-> "v"],
      [category |-> "books", title |-> <<"b">>, source_url |-> "v"],
      [category |-> "Books", title |-> NullTitle, source_url |-> JsonNull],
      [category |-> "article", title |-> <<"a">>, source_url |-> "u"],
      [title |-> <<"a">>, source_url |-> "u"],
      [category |-> "articles"],
      [category |-> "articles", title |-> <<"a">>, source_url |-> JsonNull],
      [category |-> "articles", title |-> NullTitle, source_url |-> "u"],
      [category |-> JsonNull, title |-> <<"a">>, source_url |-> "u"] }

\* Line 193 is reached with the response of line 188 in highlights_data.
Fetched(responses) ==
    /\ repo = [p \in Paths |-> None]
    /\ now = TicksPerDay
    /\ pc = "fetched"
    /\ start_date = None /\ end_date = None /\ all_time = FALSE
    /\ last_update = None
    /\ highlights_data \in responses
    /\ new_articles = <<>>
    /\ merged_articles = <<>>
    /\ existing_articles = <<>>
    /\ before = repo
    /\ requests = <<NoParams>>
    /\ writes = <<>>
    /\ failed_calls = {}
    /\ fetched_at = None
    /\ interrupted = None
    /\ workers = <<>>

InitTransform == Fetched({[results |-> r] : r \in SeqsUpTo(RawHighlights, MaxFetch)})

NextTransform == Transform /\ UNCHANGED aux

SpecTransform == InitTransform /\ [][NextTransform]_vars

\* ---------------------------------------------------- clean_title on its own
MaxTitle == 4
TitleChars == {"a", " ", "\n", "\t"}

\* One article whose title is any text of up to MaxTitle characters
InitTitle ==
    Fetched({[results |-> <<[category |-> "articles", title |-> t, source_url |-> "u"]>>] :
                t \in SeqsUpTo(TitleChars, MaxTitle)})

\* The rest of the invocation carries the title into articles.json
NextTitle ==
    \/ Transform /\ UNCHANGED aux
    \/ \E read \in Outcomes : LoadAndMerge(read) /\ UNCHANGED aux
    \/ \E get \in Outcomes, update \in Outcomes, create \in Outcomes :
          WriteArticles(get, update, create) /\ UNCHANGED aux

SpecTitle == InitTitle /\ [][NextTitle]_vars

\* --------------------------------------------- the clock during one sync
\* The implicit path of Spec, with the instant the request of line 181 or
\* 191 was sent kept in fetched_at.
NextClock ==
    \/ \E read \in Outcomes :
          /\ Invoke(None, None, FALSE, read)
          /\ fetched_at' = IF pc' = "fetching" THEN Some(now) ELSE fetched_at
          /\ UNCHANGED <<interrupted, workers>>
    \/ \E response \in Responses : FetchOk(response) /\ UNCHANGED aux
    \/ FetchFail /\ UNCHANGED aux
    \/ Transform /\ UNCHANGED aux
    \/ \E read \in Outcomes : LoadAndMerge(read) /\ UNCHANGED aux
    \/ \E get \in Outcomes, update \in Outcomes, create \in Outcomes :
          WriteArticles(get, update, create) /\ UNCHANGED aux
    \/ \E get \in Outcomes, update \in Outcomes, create \in Outcomes :
          UpdateLastUpdate(get, update, create) /\ UNCHANGED aux
    \/ Exit /\ UNCHANGED aux
    \/ Tick /\ UNCHANGED aux

SpecClock == Init /\ [][NextClock]_vars

\* ------------------------------------------- a sync run again after a failure
\* The implicit path of Spec, the clock standing still. interrupted keeps
\* what an invocation had fetched and written when its write of
\* last_update.json raised (line 214), until the invocation after it ends.
NextRecovery ==
    \/ \E read \in Outcomes :
          /\ Invoke(None, None, FALSE, read)
          /\ interrupted' =
                IF interrupted # None /\ ~Get(interrupted).rerun
                THEN Some([Get(interrupted) EXCEPT !.rerun = TRUE])
                ELSE None
          /\ UNCHANGED <<fetched_at, workers>>
    \/ \E response \in Responses : FetchOk(response) /\ UNCHANGED aux
    \/ FetchFail /\ UNCHANGED aux
    \/ Transform /\ UNCHANGED aux
    \/ \E read \in Outcomes : LoadAndMerge(read) /\ UNCHANGED aux
    \/ \E get \in Outcomes, update \in Outcomes, create \in Outcomes :
          WriteArticles(get, update, create) /\ UNCHANGED aux
    \/ \E get \in Outcomes, update \in Outcomes, create \in Outcomes :
          /\ UpdateLastUpdate(get, update, create)
          /\ interrupted' =
                IF pc' = "failed"
                THEN Some([new_articles |-> new_articles,
                           written |-> load_existing_articles_from_github(repo, "ok"),
                           rerun |-> FALSE])
                ELSE interrupted
          /\ UNCHANGED <<fetched_at, workers>>
    \/ Exit /\ UNCHANGED aux

SpecRecovery == Init /\ [][NextRecovery]_vars

\* ------------------------------------------- two invocations at one time
\* Two processes run export_articles(all_time=True) against one repository.
\* Every call answers; update_file is taken call by call: get_contents
\* (line 74) returns the sha of the blob it finds, repo.update_file (line 76)
\* is accepted when that sha is still the sha of the stored blob, and
\* create_file (line 84) is accepted when the path does not exist. The sha
\* of a blob is written as the blob itself.
Procs == 1..2

InitWorkers ==
    /\ \E a \in {None, Some(json_dumps(<<[title |-> <<"b">>, url |-> "v"]>>))} :
          repo = [p \in Paths |-> IF p = articles_file THEN a ELSE None]
    /\ now = TicksPerDay
    /\ pc = "idle"
    /\ start_date = None /\ end_date = None /\ all_time = FALSE
    /\ last_update = None
    /\ highlights_data = [results |-> <<>>]
    /\ new_articles = <<>>
    /\ merged_articles = <<>>
    /\ existing_articles = <<>>
    /\ before = repo
    /\ requests = <<>>
    /\ writes = <<>>
    /\ failed_calls = {}
    /\ fetched_at = None
    /\ interrupted = None
    /\ workers = [w \in Procs |->
                    [pc |-> "idle", new_articles |-> <<>>, existing_articles |-> <<>>,
                     merged_articles |-> <<>>, sha |-> None]]

\* Lines 169-170 and 193: the response is fetched and transformed
WorkerFetch(w, response) ==
    /\ workers[w].pc = "idle"
    /\ ~create_article_json_raises(response)
    /\ workers' = [workers EXCEPT ![w].new_articles = create_article_json(response),
                                  ![w].pc = "filtered"]
    /\ UNCHANGED <<repo, now, pc, args, last_update, locals, before, requests, writes,
                   failed_calls, fetched_at, interrupted>>

\* Lines 198-202: the stored list is read and merged
WorkerLoadAndMerge(w) ==
    /\ workers[w].pc = "filtered"
    /\ LET loaded == load_existing_articles_from_github(repo, "ok")
       IN workers' = [workers EXCEPT
                        ![w].existing_articles = loaded,
                        ![w].merged_articles = merge_articles(loaded, workers[w].new_articles),
                        ![w].pc = "merged"]
    /\ UNCHANGED <<repo, now, pc, args, last_update, locals, before, requests, writes,
                   failed_calls, fetched_at, interrupted>>

\* Line 74: get_contents inside update_file; it raises for a missing path
WorkerGetContents(w) ==
    /\ workers[w].pc = "merged"
    /\ workers' = [workers EXCEPT
                     ![w].sha = repo[articles_file],
                     ![w].pc = IF repo[articles_file] # None THEN "updating" ELSE "creating"]
    /\ UNCHANGED <<repo, now, pc, args, last_update, locals, before, requests, writes,
                   failed_calls, fetched_at, interrupted>>

\* Lines 76-81: repo.update_file with file.sha; a sha that is no longer the
\* stored blob's is refused, and the except branch goes on to create_file
WorkerUpdateFile(w) ==
    /\ workers[w].pc = "updating"
    /\ IF repo[articles_file] = workers[w].sha
       THEN /\ repo' = [repo EXCEPT
                          ![articles_file] = Some(json_dumps(workers[w].merged_articles))]
            /\ workers' = [workers EXCEPT ![w].pc = "persisted"]
       ELSE /\ workers' = [workers EXCEPT ![w].pc = "creating"]
            /\ UNCHANGED repo
    /\ UNCHANGED <<now, pc, args, last_update, locals, before, requests, writes,
                   failed_calls, fetched_at, interrupted>>

\* Lines 84-88: create_file; it raises for a path that exists
WorkerCreateFile(w) ==
    /\ workers[w].pc = "creating"
    /\ IF repo[articles_file] = None
       THEN /\ repo' = [repo EXCEPT
                          ![articles_file] = Some(json_dumps(workers[w].merged_articles))]
            /\ workers' = [workers EXCEPT ![w].pc = "persisted"]
       ELSE /\ workers' = [workers EXCEPT ![w].pc = "failed"]
            /\ UNCHANGED repo
    /\ UNCHANGED <<now, pc, args, last_update, locals, before, requests, writes,
                   failed_calls, fetched_at, interrupted>>

NextWorkers ==
    \/ \E w \in Procs, response \in Responses : WorkerFetch(w, response)
    \/ \E w \in Procs : WorkerLoadAndMerge(w)
    \/ \E w \in Procs : WorkerGetContents(w)
    \/ \E w \in Procs : WorkerUpdateFile(w)
    \/ \E w \in Procs : WorkerCreateFile(w)

SpecWorkers == InitWorkers /\ [][NextWorkers]_vars

\* ======================================================== properties
\* What a later load of each file returns
watermark_of(files) == load_last_update_from_github(files, "ok")
articles_of(files) == load_existing_articles_from_github(files, "ok")

implicit_path == start_date = None /\ ~all_time
today == now \div TicksPerDay
NoDuplicates(list) ==
    \A i, j \in 1..Len(list) : article_key(list[i]) = article_key(list[j]) => i = j

\* C1: the watermark is written only after the merged article list has been
\* written: an invocation that failed leaves the watermark a later load
\* returns as it was, and a watermark that changed was written second, after
\* articles.json received the merged list.
C1_WatermarkOnlyAfterArticles ==
    /\ pc = "failed" => watermark_of(repo) = watermark_of(before)
    /\ repo[last_update_file] # before[last_update_file] =>
          /\ writes = <<articles_file, last_update_file>>
          /\ repo[articles_file] = Some(json_dumps(merged_articles))

\* the write of the article list failed on the implicit path, with a watermark stored
C1_Witness ==
    /\ pc = "failed"
    /\ implicit_path
    /\ "update_file" \in failed_calls
    /\ writes = <<>>
    /\ Len(requests) = 1
    /\ merged_articles # <<>>
    /\ watermark_of(before) # None

\* C2: on the implicit path a loaded watermark whose date is today or later
\* makes the invocation return at once: no request, no new articles, the
\* repository as it was; a loaded watermark before today sends the request.
C2_ShortCircuit ==
    /\ [](pc = "done" /\ requests = <<>> => repo = before /\ writes = <<>>)
    /\ [][ (pc = "idle" /\ pc' # "idle" /\ start_date' = None /\ ~all_time'
            /\ last_update' # None) =>
              IF Get(last_update') \div TicksPerDay >= today
              THEN /\ pc' = "done"
                   /\ requests' = <<>>
                   /\ new_articles' = <<>>
                   /\ repo' = repo
              ELSE /\ pc' = "fetching"
                   /\ Len(requests') = 1 ]_vars

\* returned at once with the watermark at today's date
C2_Witness ==
    /\ pc = "done"
    /\ implicit_path
    /\ requests = <<>>
    /\ last_update = Some(today * TicksPerDay)
    /\ repo = before

\* C3: starting from an absent article list, articles.json never holds two
\* records with the same (title, url).
C3_PersistedUnique == NoDuplicates(articles_of(repo))

\* a fetch that repeated a record was merged into a stored list and written
C3_Witness ==
    /\ pc = "persisted"
    /\ Len(new_articles) = 2
    /\ new_articles[1] = new_articles[2]
    /\ existing_articles # <<>>
    /\ Len(articles_of(repo)) = 2

\* C4: an invocation given all_time or a start_date never writes the
\* watermark: last_update.json stays as it was when the invocation started.
C4_ExplicitModesKeepWatermark ==
    (all_time \/ start_date # None) =>
        /\ repo[last_update_file] = before[last_update_file]
        /\ last_update_file \notin Range(writes)

\* all_time together with a start_date, finished, the article list written
C4_Witness ==
    /\ pc = "done"
    /\ all_time
    /\ start_date # None
    /\ writes = <<articles_file>>

\* C5: the filter of the request follows the mode, in the order all_time,
\* start_date, watermark: none with all_time; updated_after = start 00:00 and
\* updated_before = end 00:00 (now without end_date) with a start_date; only
\* updated_after = watermark 00:00 with a watermark before today; none
\* without a watermark.
C5_Expected(sd, ed, at, lu, clock) ==
    IF at THEN <<NoParams>>
    ELSE IF sd # None
    THEN <<[updated_after |-> Some([date |-> Get(sd).ymd, time |-> 0]),
            updated_before |->
                IF ed # None THEN Some([date |-> Get(ed).ymd, time |-> 0])
                ELSE Some([date |-> clock \div TicksPerDay,
                           time |-> clock % TicksPerDay])]>>
    ELSE IF lu = None THEN <<NoParams>>
    ELSE IF Get(lu) \div TicksPerDay < clock \div TicksPerDay
    THEN <<[updated_after |-> Some([date |-> Get(lu) \div TicksPerDay, time |-> 0]),
            updated_before |-> None]>>
    ELSE <<>>

C5_FilterByMode ==
    [][ (pc = "idle" /\ pc' # "idle") =>
           requests' = C5_Expected(start_date', end_date', all_time',
                                   last_update', now) ]_vars

\* all_time with a start_date: the request carries no filter
C5_Witness ==
    /\ pc = "fetching"
    /\ all_time
    /\ start_date # None
    /\ requests = <<NoParams>>

\* ------------------------------------------------ merge_articles (SpecMerge)
merge_returned == pc \in {"merge_return", "merge_again"}

\* The entries of new, in their order, that are neither in existing nor an
\* earlier entry of new.
C6_Appended(existing, new) ==
    LET fresh == {i \in 1..Len(new) :
                    /\ \A k \in 1..Len(existing) :
                          article_key(existing[k]) # article_key(new[i])
                    /\ \A j \in 1..(i - 1) :
                          article_key(new[j]) # article_key(new[i])}
        nth(k) == CHOOSE i \in fresh : Cardinality({j \in fresh : j < i}) = k - 1
    IN [k \in 1..Cardinality(fresh) |-> new[nth(k)]]

\* C6: merge_articles keeps the existing entries as a prefix, in their order,
\* and appends the new entries after them in the order of the fetched list.
C6_OrderPreserved ==
    merge_returned =>
        merged_articles = existing_articles \o C6_Appended(existing_articles, new_articles)

\* two of three fetched entries were appended to a list that was not empty
C6_Witness ==
    /\ pc = "merge_return"
    /\ existing_articles # <<>>
    /\ Len(new_articles) = 3
    /\ Len(merged_articles) = Len(existing_articles) + 2

\* C7 as stated: whatever the two lists, the merged list has no two entries
\* with the same (title, url).
C7_NoDuplicatesForAllInputs ==
    merge_returned => NoDuplicates(merged_articles)

\* C7 amended: when the existing list repeats no record, the merged list
\* repeats none, whatever the fetched list.
C7_NoDuplicatesAdded ==
    (merge_returned /\ NoDuplicates(existing_articles)) => NoDuplicates(merged_articles)

\* a fetched list that repeats a record which the existing list does not hold
C7_Witness ==
    /\ pc = "merge_return"
    /\ existing_articles # <<>>
    /\ NoDuplicates(existing_articles)
    /\ Len(new_articles) >= 2
    /\ new_articles[1] = new_articles[2]
    /\ new_articles[1] \notin Range(existing_articles)
    /\ Len(merged_articles) = Len(existing_articles) + 1

\* C8: merging a list with entries it already holds returns the list as it
\* was, and merging the result with the same fetched list again changes nothing.
C8_MergeIdempotent ==
    /\ (pc = "merge_return" /\ Range(new_articles) \subseteq Range(existing_articles))
          => merged_articles = existing_articles
    /\ pc = "merge_again" => merged_articles = existing_articles

\* a list merged with a shorter list of its own entries
C8_Witness ==
    /\ pc = "merge_return"
    /\ Len(new_articles) = 2
    /\ Len(existing_articles) = 3
    /\ new_articles[1] # new_articles[2]
    /\ Range(new_articles) \subseteq Range(existing_articles)
    /\ merged_articles = existing_articles

\* ------------------------------------------------------------------- Spec
\* C9: a sync on the implicit path that sent its request and finished has
\* written the watermark, and what it wrote is the date of that moment as
\* 'YYYY-MM-DD', whether a watermark was loaded or none was.
C9_WatermarkSetToToday ==
    /\ []((pc = "done" /\ implicit_path /\ requests # <<>>) =>
             writes = <<articles_file, last_update_file>>)
    /\ [][ (pc = "persisted" /\ implicit_path /\ pc' = "done") =>
              repo'[last_update_file] =
                  Some([json |-> [last_update |-> [ymd |-> today]]]) ]_vars

\* the first run: no watermark loaded, everything fetched, the watermark written
C9_Witness ==
    /\ pc = "done"
    /\ implicit_path
    /\ before[last_update_file] = None
    /\ last_update = None
    /\ requests = <<NoParams>>
    /\ watermark_of(repo) # None

\* C10 as stated: once a call to the export API or to the repository has
\* raised, the invocation has failed: it goes no further and writes nothing.
C10_FailureIsFatal ==
    failed_calls # {} => pc = "failed"

\* ---------------------------------------------------------- SpecMalformed
well_formed_last_update(text) ==
    \E d \in 0..MaxDay : text = [json |-> [last_update |-> [ymd |-> d]]]
unusable_last_update ==
    \/ before[last_update_file] # None
       /\ ~well_formed_last_update(Get(before[last_update_file]))
    \/ "load_last_update_from_github" \in failed_calls
unusable_articles ==
    before[articles_file] # None /\ DOMAIN Get(before[articles_file]) # {"json"}

\* C11: a watermark that cannot be read or parsed is loaded as absent and
\* the run proceeds as a first run; an article list that cannot be parsed is
\* loaded as the empty list; neither makes the invocation fail, which only
\* a failed fetch or commit does.
C11_MalformedStateNeverBlocks ==
    /\ (pc # "idle" /\ implicit_path /\ unusable_last_update) =>
          /\ last_update = None
          /\ requests = <<NoParams>>
    /\ (pc \in {"merged", "persisted", "done"} /\ unusable_articles) =>
          existing_articles = <<>>
    /\ pc = "failed" =>
          failed_calls \cap {"get_highlights", "create_article_json", "update_file"} # {}

\* both files unparseable, and the run wrote the list and the watermark
C11_Witness ==
    /\ pc = "done"
    /\ implicit_path
    /\ before[last_update_file] # None
    /\ ~well_formed_last_update(Get(before[last_update_file]))
    /\ unusable_articles
    /\ new_articles # <<>>
    /\ writes = <<articles_file, last_update_file>>
    /\ watermark_of(repo) # None

\* ------------------------------------------------------------------- Spec
\* C12 as stated: a finished sync reports, as new articles and as their
\* count, exactly the records merge_articles appended to the list, and as
\* existing count the length of the list as loaded.
C12_ReportIsWhatWasAppended ==
    (pc = "done" /\ requests # <<>>) =>
        /\ reported_added = C6_Appended(existing_articles, new_articles)
        /\ reported_new_count = Len(merged_articles) - Len(existing_articles)
        /\ reported_existing_count = Len(existing_articles)

\* C13: an end_date given without start_date (and without all_time) changes
\* nothing: the invocation returns at once in the same cases, sends the
\* request an invocation without dates sends (no updated_before), and
\* writes the watermark when it finishes.
C13_EndDateAloneIgnored ==
    /\ [][ (pc = "idle" /\ pc' # "idle" /\ end_date' # None
            /\ start_date' = None /\ ~all_time') =>
              /\ pc' = "done" <=>
                    (last_update' # None /\ Get(last_update') \div TicksPerDay >= today)
              /\ requests' = C5_Expected(None, None, FALSE, last_update', now)
              /\ \A i \in 1..Len(requests') : requests'[i].updated_before = None ]_vars
    /\ []((pc = "done" /\ end_date # None /\ implicit_path /\ requests # <<>>) =>
             writes = <<articles_file, last_update_file>>)

\* only an end_date given, a watermark loaded, the sync finished
C13_Witness ==
    /\ pc = "done"
    /\ end_date # None
    /\ implicit_path
    /\ last_update # None
    /\ Len(requests) = 1
    /\ requests[1].updated_after # None
    /\ writes = <<articles_file, last_update_file>>

\* C14: create_article_json keeps exactly the records whose category is
\* "articles" in any letter case, one article per kept record, in the order
\* of the fetch; a record of another category is dropped and raises nothing,
\* whatever its other fields hold.
ArticlesInAnyCase == {"articles", "Articles", "ARTICLES"}
kept(results) ==
    {i \in 1..Len(results) :
        "category" \in DOMAIN results[i] /\ results[i].category \in ArticlesInAnyCase}
nth_kept(results, k) ==
    CHOOSE i \in kept(results) : Cardinality({j \in kept(results) : j <= i}) = k
well_formed_record(article) ==
    /\ "category" \in DOMAIN article => article.category # JsonNull
    /\ "title" \in DOMAIN article => article.title # NullTitle

C14_KeepsArticlesInOrder ==
    [][ pc = "fetched" =>
          LET results == highlights_data.results
          IN /\ pc' = "filtered" =>
                  /\ Len(new_articles') = Cardinality(kept(results))
                  /\ \A k \in 1..Len(new_articles') :
                        LET article == results[nth_kept(results, k)]
                        IN /\ new_articles'[k].title =
                                clean_title(dict_get(article, "title", Untitled))
                           /\ new_articles'[k].url = dict_get(article, "source_url", "")
             /\ (\A i \in 1..Len(results) :
                    /\ "category" \in DOMAIN results[i] => results[i].category # JsonNull
                    /\ i \in kept(results) => well_formed_record(results[i]))
                   => pc' = "filtered" ]_vars

\* Two of three records were kept, the dropped one had a null title
C14_Witness ==
    /\ pc = "filtered" /\ requests = <<NoParams>>
    /\ new_articles = <<[title |-> <<"b">>, url |-> "v"], [title |-> <<"a">>, url |-> "u"]>>

\* C15: create_article_json raises no exception, whatever fields of a record
\* are missing or malformed (and merge_articles raises none on its output).
C15_TransformNeverRaises == "create_article_json" \notin failed_calls

\* C16: clean_title returns the words of the title joined by single spaces:
\* no whitespace at either end, no newline, one space for every maximal run
\* of whitespace; cleaning a cleaned title changes nothing; and every title
\* in the persisted list is in that form.
RECURSIVE words(_, _)
words(s, word) ==
    IF s = <<>> THEN (IF word = <<>> THEN <<>> ELSE <<word>>)
    ELSE IF Head(s) \in Whitespace
         THEN (IF word = <<>> THEN <<>> ELSE <<word>>) \o words(Tail(s), <<>>)
         ELSE words(Tail(s), Append(word, Head(s)))
RECURSIVE join(_)
join(ws) ==
    IF ws = <<>> THEN <<>>
    ELSE IF Len(ws) = 1 THEN ws[1]
    ELSE ws[1] \o <<" ">> \o join(Tail(ws))
normalized(s) ==
    /\ s # <<>> => s[1] \notin Whitespace /\ s[Len(s)] \notin Whitespace
    /\ \A i \in 1..Len(s) : s[i] \in Whitespace => s[i] = " "
    /\ \A i \in 1..(Len(s) - 1) : ~(s[i] = " " /\ s[i + 1] = " ")

C16_TitlesNormalized ==
    /\ [][ (pc = "fetched" /\ pc' = "filtered") =>
              LET title == highlights_data.results[1].title
                  cleaned == new_articles'[1].title
              IN /\ cleaned = join(words(title, <<>>))
                 /\ normalized(cleaned)
                 /\ clean_title(cleaned) = cleaned ]_vars
    /\ [](\A i \in 1..Len(articles_of(repo)) : normalized(articles_of(repo)[i].title))

\* A title with whitespace at both ends and a run inside was cleaned and
\* written to articles.json
C16_Witness ==
    /\ pc = "persisted"
    /\ articles_of(repo) = <<[title |-> <<"a", " ", "a">>, url |-> "u"]>>
    /\ before[articles_file] = None

\* C17: a sync never removes records: after an invocation has written the
\* article list, every record the list held before the invocation is still
\* in it, also when the read of the existing list failed.
C17_NoRecordRemoved ==
    articles_file \in Range(writes) =>
        \A i \in 1..Len(articles_of(before)) :
            \E j \in 1..Len(articles_of(repo)) :
                articles_of(repo)[j] = articles_of(before)[i]

\* C18: the date saved as the watermark is never later than the date at
\* which the same sync sent its fetch, also when the clock passes midnight
\* between the fetch and the write of the watermark.
C18_WatermarkNotAfterFetch ==
    (pc = "done" /\ writes = <<articles_file, last_update_file>>) =>
        Get(watermark_of(repo)) \div TicksPerDay <= Get(fetched_at) \div TicksPerDay

\* C19: an implicit sync wrote the article list and failed before it wrote
\* the watermark; the sync run again with the same fetch result leaves the
\* list equal to what the first run wrote.
C19_RerunKeepsList ==
    (/\ interrupted # None /\ Get(interrupted).rerun
     /\ pc \in {"persisted", "done"}
     /\ writes # <<>>
     /\ new_articles = Get(interrupted).new_articles) =>
        articles_of(repo) = Get(interrupted).written

\* C20: no update is lost between two concurrent writers: when both
\* invocations have written the list, it holds every record either of them
\* merged.
C20_NoLostUpdate ==
    (\A w \in Procs : workers[w].pc = "persisted") =>
        \A w \in Procs : \A i \in 1..Len(workers[w].merged_articles) :
            \E j \in 1..Len(articles_of(repo)) :
                articles_of(repo)[j] = workers[w].merged_articles[i]

====
